---- MODULE Spec2Model ----
(***************************************************************************)
(* Path tracing over the weighted call graph (jelly_graph/graph/trace.py): *)
(* search_src walks from a function towards the callers until a root       *)
(* (in-degree 0), search_dst towards the callees until a leaf (out-degree  *)
(* 0).  The recursion of the inner dfs is an explicit stack of frames; one *)
(* action is one entry into dfs, or one iteration of its for loop.         *)
(***************************************************************************)
EXTENDS Integers, Sequences, FiniteSets, TLC

\* Function ids are 1..MaxNode.
MaxNode == 3
\* A dependency map is accumulated from at most MaxCalls attributed calls.
MaxCalls == 3
\* max_depth is drawn from 0..MaxDepth.
MaxDepth == 3

\* Python's None, as a function id that is no function id.
None == -1

FunctionIDs == 1..MaxNode

VARIABLES
    graph,          \* nx.DiGraph: [nodes, edges, weight]; weight is defined on the edges that carry the attribute
    functions,      \* jelly_obj.functions: FunctionID -> location
    pc,             \* "idle", "search_src", "search_dst", "src_done" or "dst_done"
    target_func_id, \* parameter of the running query
    max_depth,      \* parameter of the running query
    root_nodes,     \* local of search_src
    leaf_nodes,     \* local of search_dst
    all_paths,      \* local: the records found so far, in order
    visited_paths,  \* local: the path tuples already recorded
    stack,          \* the call stack of dfs, innermost frame last
    result,         \* the list the query returned
    error,          \* "none" or "ValueError"
    calls,          \* jelly_obj.calls: CallID -> location
    call2fun,       \* jelly_obj.call2fun: list of <<call id, target function id>>
    edge_index,     \* dependency_weights: position of its loop in call2fun
    dep_counts,     \* dependency_weights: its local dict dependency_counts
    depend_map,     \* the dependMap in use: [keys, count], keys in insertion order
    answer,         \* the last call of a pure function: [op, args, value]
    files,          \* jelly_obj.files: FileID -> path, ids from 0 as the loader gives them
    codeql_result,  \* CodeQLFunction.function: list of [filepath, start_row, end_row]
    base_path       \* argument of match_codeql_to_jelly: <<path>>, or <<>> for None

\* what dependency_weights, the graph builders and the queries work on
wvars == <<calls, call2fun, edge_index, dep_counts, depend_map, answer>>

\* what match_function and match_codeql_to_jelly work on, the functions aside
mvars == <<files, codeql_result, base_path>>

\* what search_src and search_dst work on, the inputs aside
tvars == <<target_func_id, max_depth, root_nodes, leaf_nodes, all_paths,
           visited_paths, stack, result, error>>

vars == <<graph, functions, pc, target_func_id, max_depth, root_nodes,
          leaf_nodes, all_paths, visited_paths, stack, result, error,
          calls, call2fun, edge_index, dep_counts, depend_map, answer,
          files, codeql_result, base_path>>

----------------------------------------------------------------------------
\* Inputs

\* classes/jelly.py location; one distinct location per function id.
Loc(f) ==
    [fileid |-> 0, startrow |-> 10 * f, startcolumn |-> 1,
     endrow |-> 10 * f + 5, endcolumn |-> 2]

\* dependency_weights' accumulation: the count of each key in the list of
\* attributed (src, dst) keys.
dependency_counts(keys) ==
    [k \in {keys[i] : i \in DOMAIN keys} |->
        Cardinality({i \in DOMAIN keys : keys[i] = k})]

\* nx.DiGraph()
EmptyGraph == [nodes |-> {}, edges |-> {}, weight |-> <<>>]

\* a variant that drops an edge from a node to itself
add_edge_no_self_loop(g, u, v, w) ==
    IF u = v
    THEN g
    ELSE [nodes  |-> g.nodes \cup {u, v},
          edges  |-> g.edges \cup {<<u, v>>},
          weight |-> [e \in DOMAIN g.weight \cup {<<u, v>>} |->
                        IF e = <<u, v>> THEN w ELSE g.weight[e]]]

\* a variant that makes a node of the source of the edge only
add_edge_source_only(g, u, v, w) ==
    [nodes  |-> g.nodes \cup {u},
     edges  |-> g.edges \cup {<<u, v>>},
     weight |-> [e \in DOMAIN g.weight \cup {<<u, v>>} |->
                   IF e = <<u, v>> THEN w ELSE g.weight[e]]]

\* graph.add_edge(u, v, weight=w): both ends become nodes, the edge is added
\* or its weight replaced.
add_edge(g, u, v, w) ==
    [nodes  |-> g.nodes \cup {u, v},
     edges  |-> g.edges \cup {<<u, v>>},
     weight |-> [e \in DOMAIN g.weight \cup {<<u, v>>} |->
                   IF e = <<u, v>> THEN w ELSE g.weight[e]]]

RECURSIVE AddEdges(_, _, _)
\* the loop of build_callgraph over the items of the dependency map that are
\* still to come
AddEdges(g, counts, todo) ==
    IF todo = {}
    THEN g
    ELSE LET k == CHOOSE x \in todo : TRUE IN
         AddEdges(add_edge(g, k[1], k[2], counts[k]), counts, todo \ {k})

\* a variant that starts from one node per function id
build_callgraph_with_all_functions(counts) ==
    AddEdges([EmptyGraph EXCEPT !.nodes = FunctionIDs], counts, DOMAIN counts)

\* build_callgraph: one add_edge(src, dst, weight=count) per key.
build_callgraph(counts) == AddEdges(EmptyGraph, counts, DOMAIN counts)

\* The same nodes and edges with no weight attribute on any edge.
unweighted(g) ==
    [nodes |-> g.nodes, edges |-> g.edges, weight |-> [e \in {} |-> 1]]

KeyLists ==
    UNION {[1..n -> FunctionIDs \X FunctionIDs] : n \in 0..MaxCalls}

\* jelly_obj.functions: every function id but the last has a location; the
\* last one is a call target that the function table does not list.
FunctionTable == [f \in 1..(MaxNode - 1) |-> Loc(f)]

----------------------------------------------------------------------------
\* Graph queries (networkx)

predecessors(g, n) == {e[1] : e \in {x \in g.edges : x[2] = n}}

successors(g, n) == {e[2] : e \in {x \in g.edges : x[1] = n}}

in_degree(g, n) == Cardinality(predecessors(g, n))

out_degree(g, n) == Cardinality(successors(g, n))

\* find_root_nodes with the degrees confused: the nodes that call nothing
find_root_nodes_by_out_degree(g) ==
    {node \in g.nodes : out_degree(g, node) = 0}

find_root_nodes(g) == {node \in g.nodes : in_degree(g, node) = 0}

find_leaf_nodes(g) == {node \in g.nodes : out_degree(g, node) = 0}

\* the edge lookup counting every edge as one hop, whatever its weight
edge_weight_hops(g, u, v) == 1

\* graph[u][v].get("weight", 1)
edge_weight(g, u, v) ==
    IF <<u, v>> \in DOMAIN g.weight THEN g.weight[<<u, v>>] ELSE 1

\* d with d[k] = v
DictSet(d, k, v) == [x \in DOMAIN d \cup {k} |-> IF x = k THEN v ELSE d[x]]

EmptyDict == [x \in {} |-> 0]

\* {id: functions[id]} if id in functions, else d unchanged
WithLocation(d, id) ==
    IF id \in DOMAIN functions THEN DictSet(d, id, functions[id]) ELSE d

Top == stack[Len(stack)]

Pop == SubSeq(stack, 1, Len(stack) - 1)

ReplaceTop(f) == Append(Pop, f)

\* an empty dict of counts, with its (empty) insertion order
NoCounts == [keys |-> <<>>, count |-> <<>>]

\* base_path=None
NoBasePath == <<>>

\* nothing is to be matched
NoMatchInputs ==
    /\ files = <<>>
    /\ codeql_result = <<>>
    /\ base_path = NoBasePath

\* no pure function was called yet
NoAnswer == [op |-> "none", args |-> <<>>, value |-> <<>>]

----------------------------------------------------------------------------
Init ==
    /\ \E keys \in KeyLists, weighted \in BOOLEAN :
          graph = IF weighted
                  THEN build_callgraph(dependency_counts(keys))
                  ELSE unweighted(build_callgraph(dependency_counts(keys)))
    /\ functions = FunctionTable
    /\ pc = "idle"
    /\ target_func_id = None
    /\ max_depth = 0
    /\ root_nodes = {}
    /\ leaf_nodes = {}
    /\ all_paths = <<>>
    /\ visited_paths = {}
    /\ stack = <<>>
    /\ result = <<>>
    /\ error = "none"
    /\ calls = <<>>
    /\ call2fun = <<>>
    /\ edge_index = 0
    /\ dep_counts = NoCounts
    /\ depend_map = NoCounts
    /\ answer = NoAnswer
    /\ NoMatchInputs

----------------------------------------------------------------------------
\* search_src

SrcPathInfo(path, total_weight, root_node, parents) ==
    [path |-> path, total_weight |-> total_weight,
     root_node |-> root_node, parents |-> parents]

\* lines 59-65: the record returned when the start is already a root
SrcTrivialRecord(t) == SrcPathInfo(<<t>>, 0, t, EmptyDict)

\* the first call of dfs with an empty parents map, the start left out
SrcInitialFrameNoStart(t) ==
    [current_node |-> t, current_path |-> <<t>>, current_weight |-> 0,
     visited_in_path |-> {t}, parents_info |-> EmptyDict,
     at |-> "entry", todo |-> {}]

\* lines 131-135: the first call of dfs
SrcInitialFrame(t) ==
    [current_node |-> t, current_path |-> <<t>>, current_weight |-> 0,
     visited_in_path |-> {t}, parents_info |-> WithLocation(EmptyDict, t),
     at |-> "entry", todo |-> {}]

\* a variant in which the calls for the predecessors of a node share one
\* parents map, filled for all of them
SrcNextFrameSharedParents(f, predecessor) ==
    [current_node |-> predecessor,
     current_path |-> Append(f.current_path, predecessor),
     current_weight |-> f.current_weight
                          + edge_weight(graph, predecessor, f.current_node),
     visited_in_path |-> f.visited_in_path \cup {predecessor},
     parents_info |->
        [x \in DOMAIN f.parents_info
                 \cup (predecessors(graph, f.current_node) \cap DOMAIN functions)
            |-> functions[x]],
     at |-> "entry", todo |-> {}]

\* lines 116-128: the frame of the recursive call for one predecessor
SrcNextFrame(f, predecessor) ==
    [current_node |-> predecessor,
     current_path |-> Append(f.current_path, predecessor),
     current_weight |-> f.current_weight
                          + edge_weight(graph, predecessor, f.current_node),
     visited_in_path |-> f.visited_in_path \cup {predecessor},
     parents_info |-> WithLocation(f.parents_info, predecessor),
     at |-> "entry", todo |-> {}]

\* the existence check testing for None only
SrcNotFoundOnlyNone(t) == t = None

\* line 52
SrcNotFound(t) == t \notin graph.nodes

\* search_src without the special case of a start that is a root
SrcStartIsRootNever(t) == FALSE

\* line 59
SrcStartIsRoot(t) == t \in find_root_nodes(graph)

\* line 91
SrcDepthExceeded(f) == Len(f.current_path) > max_depth

\* line 95
SrcAtRoot(f) == f.current_node \in root_nodes

\* dfs without the cycle check
SrcSkipNever(f, predecessor) == FALSE

\* line 112
SrcSkip(f, predecessor) == predecessor \in f.visited_in_path

\* lines 52-72, 131-135
search_src(t, d) ==
    /\ pc = "idle"
    /\ target_func_id' = t
    /\ max_depth' = d
    /\ IF SrcNotFound(t)
       THEN /\ pc' = "src_done"
            /\ error' = "ValueError"
            /\ UNCHANGED <<root_nodes, all_paths, visited_paths, stack, result>>
       ELSE /\ root_nodes' = find_root_nodes(graph)
            /\ error' = "none"
            /\ IF SrcStartIsRoot(t)
               THEN /\ pc' = "src_done"
                    /\ result' = <<SrcTrivialRecord(t)>>
                    /\ UNCHANGED <<all_paths, visited_paths, stack>>
               ELSE /\ pc' = "search_src"
                    /\ all_paths' = <<>>
                    /\ visited_paths' = {}
                    /\ stack' = <<SrcInitialFrame(t)>>
                    /\ UNCHANGED result
    /\ UNCHANGED wvars
    /\ UNCHANGED mvars
    /\ UNCHANGED <<graph, functions, leaf_nodes>>

\* lines 90-107: entry of dfs
src_dfs_enter ==
    /\ pc = "search_src"
    /\ stack # <<>>
    /\ Top.at = "entry"
    /\ IF SrcDepthExceeded(Top)
       THEN /\ stack' = Pop
            /\ UNCHANGED <<all_paths, visited_paths>>
       ELSE IF SrcAtRoot(Top)
       THEN /\ stack' = Pop
            /\ IF Top.current_path \notin visited_paths
               THEN /\ visited_paths' = visited_paths \cup {Top.current_path}
                    /\ all_paths' = Append(all_paths,
                          SrcPathInfo(Top.current_path, Top.current_weight,
                                      Top.current_node, Top.parents_info))
               ELSE UNCHANGED <<all_paths, visited_paths>>
       ELSE /\ stack' = ReplaceTop([Top EXCEPT !.at = "loop",
                          !.todo = predecessors(graph, Top.current_node)])
            /\ UNCHANGED <<all_paths, visited_paths>>
    /\ UNCHANGED wvars
    /\ UNCHANGED mvars
    /\ UNCHANGED <<graph, functions, pc, target_func_id, max_depth,
                   root_nodes, leaf_nodes, result, error>>

\* lines 110-128: one iteration of the loop over the predecessors, or its end
src_dfs_loop ==
    /\ pc = "search_src"
    /\ stack # <<>>
    /\ Top.at = "loop"
    /\ IF Top.todo = {}
       THEN stack' = Pop
       ELSE \E predecessor \in Top.todo :
               LET rest == [Top EXCEPT !.todo = Top.todo \ {predecessor}] IN
               IF SrcSkip(Top, predecessor)
               THEN stack' = ReplaceTop(rest)
               ELSE stack' = Append(ReplaceTop(rest),
                                    SrcNextFrame(Top, predecessor))
    /\ UNCHANGED wvars
    /\ UNCHANGED mvars
    /\ UNCHANGED <<graph, functions, pc, target_func_id, max_depth,
                   root_nodes, leaf_nodes, all_paths, visited_paths,
                   result, error>>

\* a variant that returns every record twice
src_return_repeating ==
    /\ pc = "search_src"
    /\ stack = <<>>
    /\ pc' = "src_done"
    /\ result' = all_paths \o all_paths
    /\ UNCHANGED wvars
    /\ UNCHANGED mvars
    /\ UNCHANGED <<graph, functions, target_func_id, max_depth, root_nodes,
                   leaf_nodes, all_paths, visited_paths, stack, error>>

\* line 137
src_return ==
    /\ pc = "search_src"
    /\ stack = <<>>
    /\ pc' = "src_done"
    /\ result' = all_paths
    /\ UNCHANGED wvars
    /\ UNCHANGED mvars
    /\ UNCHANGED <<graph, functions, target_func_id, max_depth, root_nodes,
                   leaf_nodes, all_paths, visited_paths, stack, error>>

----------------------------------------------------------------------------
\* search_dst

DstPathInfo(path, total_weight, children) ==
    [path |-> path, total_weight |-> total_weight, children |-> children]

\* lines 165-173: the record returned when the start is already a leaf
DstTrivialRecord(t) == DstPathInfo(<<t>>, 0, WithLocation(EmptyDict, t))

\* lines 238-242: the first call of dfs
DstInitialFrame(t) ==
    [current_node |-> t, current_path |-> <<t>>, current_weight |-> 0,
     visited_in_path |-> {t}, children_info |-> WithLocation(EmptyDict, t),
     at |-> "entry", todo |-> {}]

\* a variant that reads the weight of the edge in the opposite direction
DstNextFrameBackwardWeight(f, successor) ==
    [current_node |-> successor,
     current_path |-> Append(f.current_path, successor),
     current_weight |-> f.current_weight
                          + edge_weight(graph, successor, f.current_node),
     visited_in_path |-> f.visited_in_path \cup {successor},
     children_info |-> WithLocation(f.children_info, successor),
     at |-> "entry", todo |-> {}]

\* lines 223-235: the frame of the recursive call for one successor
DstNextFrame(f, successor) ==
    [current_node |-> successor,
     current_path |-> Append(f.current_path, successor),
     current_weight |-> f.current_weight
                          + edge_weight(graph, f.current_node, successor),
     visited_in_path |-> f.visited_in_path \cup {successor},
     children_info |-> WithLocation(f.children_info, successor),
     at |-> "entry", todo |-> {}]

\* search_dst without the existence check
DstNotFoundNever(t) == FALSE

\* line 158
DstNotFound(t) == t \notin graph.nodes

\* line 165
DstStartIsLeaf(t) == t \in find_leaf_nodes(graph)

\* the depth check off by one, either way
DstDepthExceededAtLimit(f) == Len(f.current_path) >= max_depth

DstDepthExceededLate(f) == Len(f.current_path) > max_depth + 1

\* line 199
DstDepthExceeded(f) == Len(f.current_path) > max_depth

\* dfs also recording a path that ends where every callee is already on it
DstAtLeafOrDeadEnd(f) ==
    \/ f.current_node \in leaf_nodes
    \/ successors(graph, f.current_node) \subseteq f.visited_in_path

\* line 203
DstAtLeaf(f) == f.current_node \in leaf_nodes

\* search_dst.dfs without the per-path visited check
DstSkipNever(f, successor) == FALSE

\* line 219
DstSkip(f, successor) == successor \in f.visited_in_path

\* lines 158-179, 238-242
search_dst(t, d) ==
    /\ pc = "idle"
    /\ target_func_id' = t
    /\ max_depth' = d
    /\ IF DstNotFound(t)
       THEN /\ pc' = "dst_done"
            /\ error' = "ValueError"
            /\ UNCHANGED <<leaf_nodes, all_paths, visited_paths, stack, result>>
       ELSE /\ leaf_nodes' = find_leaf_nodes(graph)
            /\ error' = "none"
            /\ IF DstStartIsLeaf(t)
               THEN /\ pc' = "dst_done"
                    /\ result' = <<DstTrivialRecord(t)>>
                    /\ UNCHANGED <<all_paths, visited_paths, stack>>
               ELSE /\ pc' = "search_dst"
                    /\ all_paths' = <<>>
                    /\ visited_paths' = {}
                    /\ stack' = <<DstInitialFrame(t)>>
                    /\ UNCHANGED result
    /\ UNCHANGED wvars
    /\ UNCHANGED mvars
    /\ UNCHANGED <<graph, functions, root_nodes>>

\* lines 198-214: entry of dfs
dst_dfs_enter ==
    /\ pc = "search_dst"
    /\ stack # <<>>
    /\ Top.at = "entry"
    /\ IF DstDepthExceeded(Top)
       THEN /\ stack' = Pop
            /\ UNCHANGED <<all_paths, visited_paths>>
       ELSE IF DstAtLeaf(Top)
       THEN /\ stack' = Pop
            /\ IF Top.current_path \notin visited_paths
               THEN /\ visited_paths' = visited_paths \cup {Top.current_path}
                    /\ all_paths' = Append(all_paths,
                          DstPathInfo(Top.current_path, Top.current_weight,
                                      Top.children_info))
               ELSE UNCHANGED <<all_paths, visited_paths>>
       ELSE /\ stack' = ReplaceTop([Top EXCEPT !.at = "loop",
                          !.todo = successors(graph, Top.current_node)])
            /\ UNCHANGED <<all_paths, visited_paths>>
    /\ UNCHANGED wvars
    /\ UNCHANGED mvars
    /\ UNCHANGED <<graph, functions, pc, target_func_id, max_depth,
                   root_nodes, leaf_nodes, result, error>>

\* lines 217-235: one iteration of the loop over the successors, or its end
dst_dfs_loop ==
    /\ pc = "search_dst"
    /\ stack # <<>>
    /\ Top.at = "loop"
    /\ IF Top.todo = {}
       THEN stack' = Pop
       ELSE \E successor \in Top.todo :
               LET rest == [Top EXCEPT !.todo = Top.todo \ {successor}] IN
               IF DstSkip(Top, successor)
               THEN stack' = ReplaceTop(rest)
               ELSE stack' = Append(ReplaceTop(rest),
                                    DstNextFrame(Top, successor))
    /\ UNCHANGED wvars
    /\ UNCHANGED mvars
    /\ UNCHANGED <<graph, functions, pc, target_func_id, max_depth,
                   root_nodes, leaf_nodes, all_paths, visited_paths,
                   result, error>>

\* a variant that returns with the edges of the graph removed
dst_return_clearing_edges ==
    /\ pc = "search_dst"
    /\ stack = <<>>
    /\ pc' = "dst_done"
    /\ result' = all_paths
    /\ graph' = [graph EXCEPT !.edges = {}]
    /\ UNCHANGED wvars
    /\ UNCHANGED mvars
    /\ UNCHANGED <<functions, target_func_id, max_depth, root_nodes,
                   leaf_nodes, all_paths, visited_paths, stack, error>>

\* line 244
dst_return ==
    /\ pc = "search_dst"
    /\ stack = <<>>
    /\ pc' = "dst_done"
    /\ result' = all_paths
    /\ UNCHANGED wvars
    /\ UNCHANGED mvars
    /\ UNCHANGED <<graph, functions, target_func_id, max_depth, root_nodes,
                   leaf_nodes, all_paths, visited_paths, stack, error>>

----------------------------------------------------------------------------
\* The caller

Starts == FunctionIDs \cup {None}

Depths == 0..MaxDepth

CallSearchSrc == \E t \in Starts, d \in Depths : search_src(t, d)

CallSearchDst == \E t \in Starts, d \in Depths : search_dst(t, d)

Next ==
    \/ CallSearchSrc
    \/ src_dfs_enter
    \/ src_dfs_loop
    \/ src_return
    \/ CallSearchDst
    \/ dst_dfs_enter
    \/ dst_dfs_loop
    \/ dst_return

Spec == Init /\ [][Next]_vars

\* One call of search_src or search_dst runs to its return without being
\* suspended: every step of the traversal that can be taken is taken.
Traversal ==
    \/ src_dfs_enter
    \/ src_dfs_loop
    \/ src_return
    \/ dst_dfs_enter
    \/ dst_dfs_loop
    \/ dst_return

\* the graphs of the termination check: those built from calls between
\* functions of the function table
InitLive == Init /\ graph.nodes \subseteq DOMAIN functions

SpecLive == InitLive /\ [][Next]_vars /\ WF_vars(Traversal)

----------------------------------------------------------------------------
\* weight/weight.py: attribution of a call to the function that encloses it

MaxFuncs == 2

MaxRow == 3

FileIDs == 0..1

Columns == 1..2

\* the locations a function of the table can have
FunctionLocations ==
    {[fileid |-> fl, startrow |-> s, startcolumn |-> 1, endrow |-> e, endcolumn |-> c] :
        fl \in FileIDs, s \in 1..MaxRow, e \in 1..MaxRow, c \in Columns}

\* the locations a call can have
CallLocations ==
    {[fileid |-> 0, startrow |-> s, startcolumn |-> 1, endrow |-> e, endcolumn |-> 1] :
        s \in 1..MaxRow, e \in 1..MaxRow}

\* jelly_obj.functions with ids 1..n; a dict iterates in insertion order, here
\* the order of the ids, so that every order of the locations is drawn.
FunctionTables == UNION {[1..n -> FunctionLocations] : n \in 0..MaxFuncs}

\* the functions A = lines 1-20 and B = lines 5-10, nested in A
ScenarioFunctions ==
    <<[fileid |-> 0, startrow |-> 1, startcolumn |-> 1, endrow |-> 20, endcolumn |-> 1],
      [fileid |-> 0, startrow |-> 5, startcolumn |-> 1, endrow |-> 10, endcolumn |-> 1]>>

\* a call at lines 6-7
ScenarioCall ==
    [fileid |-> 0, startrow |-> 6, startcolumn |-> 1, endrow |-> 7, endcolumn |-> 1]

RECURSIVE dict_order(_)
\* the keys of a dict whose keys were inserted in ascending order
dict_order(S) ==
    IF S = {}
    THEN <<>>
    ELSE LET m == CHOOSE x \in S : \A y \in S : x <= y IN
         <<m>> \o dict_order(S \ {m})

\* a variant that asks for a function starting strictly before the call
is_call_in_function_strict(call_loc, func_loc) ==
    /\ call_loc.fileid = func_loc.fileid
    /\ func_loc.startrow < call_loc.startrow
    /\ call_loc.endrow <= func_loc.endrow

is_call_in_function(call_loc, func_loc) ==
    /\ call_loc.fileid = func_loc.fileid
    /\ func_loc.startrow <= call_loc.startrow
    /\ call_loc.endrow <= func_loc.endrow

\* the key of min(): (endrow - startrow, endcolumn - startcolumn)
size_key(loc) == <<loc.endrow - loc.startrow, loc.endcolumn - loc.startcolumn>>

\* Python's < on two pairs
tuple_less(a, b) == a[1] < b[1] \/ (a[1] = b[1] /\ a[2] < b[2])

\* a variant that takes the first item whatever its key
first_item(items, table) == items[1]

RECURSIVE min_scan(_, _, _, _)
\* min(items, key=...): the items are scanned in order and the best one so far
\* is replaced on a strictly smaller key only
min_scan(items, table, i, best) ==
    IF i > Len(items)
    THEN best
    ELSE min_scan(items, table, i + 1,
                  IF tuple_less(size_key(table[items[i]]), size_key(table[best]))
                  THEN items[i] ELSE best)

min_by_size(items, table) == min_scan(items, table, 2, items[1])

find_src_function(call_loc, table) ==
    LET same_file(f) == table[f].fileid = call_loc.fileid
        candidates == SelectSeq(dict_order(DOMAIN table), same_file)
        contains(f) == is_call_in_function(call_loc, table[f])
        matching_functions == SelectSeq(candidates, contains)
    IN  IF matching_functions = <<>>
        THEN None
        ELSE min_by_size(matching_functions, table)

\* search_src and search_dst are not running and have run nothing
TraceIdle ==
    /\ pc = "idle"
    /\ target_func_id = None
    /\ max_depth = 0
    /\ root_nodes = {}
    /\ leaf_nodes = {}
    /\ all_paths = <<>>
    /\ visited_paths = {}
    /\ stack = <<>>
    /\ result = <<>>
    /\ error = "none"

InitAttribution ==
    /\ \/ \E table \in FunctionTables, call_loc \in CallLocations :
            /\ call_loc.startrow <= call_loc.endrow
            /\ \A f \in DOMAIN table : table[f].startrow <= table[f].endrow
            /\ functions = table
            /\ calls = <<call_loc>>
       \/ /\ functions = ScenarioFunctions
          /\ calls = <<ScenarioCall>>
    /\ graph = EmptyGraph
    /\ TraceIdle
    /\ call2fun = <<>>
    /\ edge_index = 0
    /\ dep_counts = NoCounts
    /\ depend_map = NoCounts
    /\ answer = NoAnswer
    /\ NoMatchInputs

CallFindSrcFunction ==
    \E call_id \in DOMAIN calls :
        /\ answer' = [op |-> "find_src_function", args |-> <<call_id>>,
                      value |-> find_src_function(calls[call_id], functions)]
        /\ UNCHANGED mvars
        /\ UNCHANGED <<graph, functions, pc, tvars, calls, call2fun, edge_index,
                       dep_counts, depend_map>>

NextAttribution == CallFindSrcFunction

SpecAttribution == InitAttribution /\ [][NextAttribution]_vars

----------------------------------------------------------------------------
\* weight/weight.py dependency_weights, graph/build_callgraph.py builders

\* a function table with a nested function: 1 = lines 1-6, 2 = lines 3-4 of
\* file 0
SampleFunctions ==
    <<[fileid |-> 0, startrow |-> 1, startcolumn |-> 1, endrow |-> 6, endcolumn |-> 2],
      [fileid |-> 0, startrow |-> 3, startcolumn |-> 1, endrow |-> 4, endcolumn |-> 2]>>

\* a call table: call 1 in function 1, call 2 in function 2 (and in 1), call 3
\* in a file without functions
SampleCalls ==
    <<[fileid |-> 0, startrow |-> 2, startcolumn |-> 1, endrow |-> 2, endcolumn |-> 1],
      [fileid |-> 0, startrow |-> 3, startcolumn |-> 1, endrow |-> 4, endcolumn |-> 1],
      [fileid |-> 1, startrow |-> 2, startcolumn |-> 1, endrow |-> 2, endcolumn |-> 1]>>

\* the call ids an edge of call2fun can name; the last one is not in the table
CallIDs == 1..(Len(SampleCalls) + 1)

\* the targets an edge of call2fun can name: the functions of the table and
\* one id that has no entry
TargetIDs == 1..(Len(SampleFunctions) + 1)

\* jelly_obj.call2fun: any list of edges, repeated edges included
Call2FunLists == UNION {[1..n -> CallIDs \X TargetIDs] : n \in 0..MaxCalls}

\* jelly_obj.files
FileTable == [fl \in {0} |-> "a.js"]

UnknownFile == "unknown"

\* a variant that counts every key once
accumulate_once(dc, key) ==
    IF key \in DOMAIN dc.count
    THEN dc
    ELSE [keys |-> Append(dc.keys, key), count |-> dc.count @@ (key :> 1)]

\* a variant that counts a key again only while it is the newest key
accumulate_run_length(dc, key) ==
    IF key \in DOMAIN dc.count
    THEN IF dc.keys[Len(dc.keys)] = key
         THEN [dc EXCEPT !.count[key] = @ + 1]
         ELSE dc
    ELSE [keys |-> Append(dc.keys, key), count |-> dc.count @@ (key :> 1)]

\* dependency_counts[key] += 1, or = 1 on first sight
accumulate(dc, key) ==
    IF key \in DOMAIN dc.count
    THEN [dc EXCEPT !.count[key] = @ + 1]
    ELSE [keys |-> Append(dc.keys, key), count |-> dc.count @@ (key :> 1)]

\* a variant that keeps the edges of unattributable calls
process_edge_keep_unattributed(dc, edge) ==
    LET call_id == edge[1]
        dst_func_id == edge[2]
    IN  IF call_id \notin DOMAIN calls
        THEN dc
        ELSE accumulate(dc, <<find_src_function(calls[call_id], functions), dst_func_id>>)

\* the body of the loop of dependency_weights for one edge of call2fun
process_edge(dc, edge) ==
    LET call_id == edge[1]
        dst_func_id == edge[2]
    IN  IF call_id \notin DOMAIN calls
        THEN dc
        ELSE LET src_func_id == find_src_function(calls[call_id], functions) IN
             IF src_func_id = None
             THEN dc
             ELSE accumulate(dc, <<src_func_id, dst_func_id>>)

RECURSIVE process_edges(_, _, _)
\* the loop of dependency_weights from edge i of the list on
process_edges(dc, edges, i) ==
    IF i > Len(edges)
    THEN dc
    ELSE process_edges(process_edge(dc, edges[i]), edges, i + 1)

\* dependency_weights on a jelly object with this call2fun list
dependency_weights_of(edges) == process_edges(NoCounts, edges, 1)

RECURSIVE sum_values(_, _)
sum_values(dm, i) ==
    IF i > Len(dm.keys) THEN 0 ELSE dm.count[dm.keys[i]] + sum_values(dm, i + 1)

get_total_calls(dm) == sum_values(dm, 1)

\* the node attributes build_meta_callgraph sets on a node of the table
node_metadata(loc) ==
    [file      |-> IF loc.fileid \in DOMAIN FileTable THEN FileTable[loc.fileid] ELSE UnknownFile,
     start_row |-> loc.startrow,
     end_row   |-> loc.endrow,
     start_col |-> loc.startcolumn,
     end_col   |-> loc.endcolumn,
     lines     |-> loc.endrow - loc.startrow + 1]

build_meta_callgraph(counts, table) ==
    LET g == AddEdges(EmptyGraph, counts, DOMAIN counts) IN
    [nodes  |-> g.nodes,
     edges  |-> g.edges,
     weight |-> g.weight,
     attrs  |-> [n \in g.nodes \cap DOMAIN table |-> node_metadata(table[n])]]

InitWeight ==
    /\ call2fun \in Call2FunLists
    /\ functions = SampleFunctions
    /\ calls = SampleCalls
    /\ graph = EmptyGraph
    /\ TraceIdle
    /\ edge_index = 0
    /\ dep_counts = NoCounts
    /\ depend_map = NoCounts
    /\ answer = NoAnswer
    /\ NoMatchInputs

\* dependency_weights(jelly_obj): entry
dependency_weights ==
    /\ pc = "idle"
    /\ pc' = "dependency_weights"
    /\ dep_counts' = NoCounts
    /\ edge_index' = 1
    /\ UNCHANGED mvars
    /\ UNCHANGED <<graph, functions, tvars, calls, call2fun, depend_map, answer>>

\* one turn of the loop over call2fun
dw_loop ==
    /\ pc = "dependency_weights"
    /\ edge_index <= Len(call2fun)
    /\ dep_counts' = process_edge(dep_counts, call2fun[edge_index])
    /\ edge_index' = edge_index + 1
    /\ UNCHANGED mvars
    /\ UNCHANGED <<graph, functions, pc, tvars, calls, call2fun, depend_map, answer>>

\* return dependMap(dependMap=dependency_counts)
dw_return ==
    /\ pc = "dependency_weights"
    /\ edge_index > Len(call2fun)
    /\ depend_map' = dep_counts
    /\ pc' = "weights_done"
    /\ UNCHANGED mvars
    /\ UNCHANGED <<graph, functions, tvars, calls, call2fun, edge_index, dep_counts, answer>>

CallGetTotalCalls ==
    /\ pc = "weights_done"
    /\ answer' = [op |-> "get_total_calls", args |-> <<>>,
                  value |-> get_total_calls(depend_map)]
    /\ UNCHANGED mvars
    /\ UNCHANGED <<graph, functions, pc, tvars, calls, call2fun, edge_index,
                   dep_counts, depend_map>>

CallBuildCallgraph ==
    /\ pc = "weights_done"
    /\ graph' = build_callgraph(depend_map.count)
    /\ pc' = "graph_built"
    /\ UNCHANGED mvars
    /\ UNCHANGED <<functions, tvars, wvars>>

CallBuildMetaCallgraph ==
    /\ pc = "weights_done"
    /\ graph' = build_meta_callgraph(depend_map.count, functions)
    /\ pc' = "meta_graph_built"
    /\ UNCHANGED mvars
    /\ UNCHANGED <<functions, tvars, wvars>>

NextWeight ==
    \/ dependency_weights
    \/ dw_loop
    \/ dw_return
    \/ CallGetTotalCalls
    \/ CallBuildCallgraph
    \/ CallBuildMetaCallgraph

SpecWeight == InitWeight /\ [][NextWeight]_vars

----------------------------------------------------------------------------
\* The queries of weight/weight.py and graph/build_callgraph.py

MaxQueryNode == 2

MaxTop == 3

\* the function ids of the dependency maps that are queried
QueryIDs == 1..MaxQueryNode

RECURSIVE count_keys(_, _, _)
\* the dict left by dependency_weights when its edges give these keys in turn
count_keys(dc, keys, i) ==
    IF i > Len(keys)
    THEN dc
    ELSE count_keys(accumulate(dc, keys[i]), keys, i + 1)

QueryKeyLists == UNION {[1..n -> QueryIDs \X QueryIDs] : n \in 0..MaxCalls}

\* the dependency map {(1,2): 3, (1,3): 5, (4,1): 1}
ScenarioMap ==
    [keys  |-> <<<<1, 2>>, <<1, 3>>, <<4, 1>>>>,
     count |-> (<<1, 2>> :> 3) @@ (<<1, 3>> :> 5) @@ (<<4, 1>> :> 1)]

\* a variant that answers None for a pair that is not a key
get_dependency_or_none(dm, src_id, dst_id) ==
    IF <<src_id, dst_id>> \in DOMAIN dm.count THEN dm.count[<<src_id, dst_id>>] ELSE None

\* depend_map.dependMap.get((src_id, dst_id), 0)
get_dependency(dm, src_id, dst_id) ==
    IF <<src_id, dst_id>> \in DOMAIN dm.count THEN dm.count[<<src_id, dst_id>>] ELSE 0

get_caller_dependencies(dm, src_id) ==
    [dst \in {k[2] : k \in {x \in DOMAIN dm.count : x[1] = src_id}} |->
        dm.count[<<src_id, dst>>]]

get_callee_dependencies(dm, dst_id) ==
    [src \in {k[1] : k \in {x \in DOMAIN dm.count : x[2] = dst_id}} |->
        dm.count[<<src, dst_id>>]]

RECURSIVE sum_weights(_, _)
\* sum(data.get("weight", 0) for ... in edges)
sum_weights(g, edges) ==
    IF edges = {}
    THEN 0
    ELSE LET e == CHOOSE x \in edges : TRUE IN
         (IF e \in DOMAIN g.weight THEN g.weight[e] ELSE 0) + sum_weights(g, edges \ {e})

in_edges(g, n) == {e \in g.edges : e[2] = n}

out_edges(g, n) == {e \in g.edges : e[1] = n}

\* a variant that reports the number of edges as the weighted degrees
get_node_statistics_unweighted(g, node_id) ==
    IF node_id \notin g.nodes
    THEN EmptyDict
    ELSE [in_degree           |-> in_degree(g, node_id),
          out_degree          |-> out_degree(g, node_id),
          weighted_in_degree  |-> in_degree(g, node_id),
          weighted_out_degree |-> out_degree(g, node_id)]

get_node_statistics(g, node_id) ==
    IF node_id \notin g.nodes
    THEN EmptyDict
    ELSE [in_degree           |-> in_degree(g, node_id),
          out_degree          |-> out_degree(g, node_id),
          weighted_in_degree  |-> sum_weights(g, in_edges(g, node_id)),
          weighted_out_degree |-> sum_weights(g, out_edges(g, node_id))]

\* [(caller, callee, count) for (caller, callee), count in dependMap.items()]
triples(dm) == [i \in 1..Len(dm.keys) |-> <<dm.keys[i][1], dm.keys[i][2], dm.count[dm.keys[i]]>>]

\* a variant that places an item before the items of the same count
insert_before_equal(sorted, x) ==
    LET before == SelectSeq(sorted, LAMBDA y : y[3] > x[3])
        after  == SelectSeq(sorted, LAMBDA y : y[3] <= x[3])
    IN  before \o <<x>> \o after

\* the place of one more item in a list sorted by key x[2] with reverse=True:
\* the sort is stable, the item goes behind the items of the same count
insert_stable(sorted, x) ==
    LET before == SelectSeq(sorted, LAMBDA y : y[3] >= x[3])
        after  == SelectSeq(sorted, LAMBDA y : y[3] < x[3])
    IN  before \o <<x>> \o after

RECURSIVE sorted_reverse(_, _, _)
\* sorted(items, key=lambda x: x[2], reverse=True)
sorted_reverse(items, i, sorted) ==
    IF i > Len(items)
    THEN sorted
    ELSE sorted_reverse(items, i + 1, insert_stable(sorted, items[i]))

\* items[:n] of Python, n negative included
slice_to(items, n) ==
    LET stop == IF n >= 0 THEN n ELSE Len(items) + n
        last == IF stop > Len(items) THEN Len(items) ELSE IF stop < 0 THEN 0 ELSE stop
    IN  SubSeq(items, 1, last)

get_top_dependencies(dm, top_n) ==
    slice_to(sorted_reverse(triples(dm), 1, <<>>), top_n)

InitQuery ==
    /\ \/ \E keys \in QueryKeyLists : depend_map = count_keys(NoCounts, keys, 1)
       \/ depend_map = ScenarioMap
    /\ \E weighted \in BOOLEAN :
          graph = IF weighted
                  THEN build_callgraph(depend_map.count)
                  ELSE unweighted(build_callgraph(depend_map.count))
    /\ functions = <<>>
    /\ calls = <<>>
    /\ call2fun = <<>>
    /\ TraceIdle
    /\ edge_index = 0
    /\ dep_counts = NoCounts
    /\ answer = NoAnswer
    /\ NoMatchInputs

\* the ids a query can ask about: those of the graph, those of the range and
\* one that is never a node
AskedIDs == graph.nodes \cup QueryIDs \cup {None}

\* the caller asks one query and keeps its answer
Answer(op, args, value) ==
    /\ answer = NoAnswer
    /\ answer' = [op |-> op, args |-> args, value |-> value]
    /\ UNCHANGED mvars
    /\ UNCHANGED <<graph, functions, pc, tvars, calls, call2fun, edge_index,
                   dep_counts, depend_map>>

CallGetNodeStatistics ==
    \E node_id \in AskedIDs :
        Answer("get_node_statistics", <<node_id>>, get_node_statistics(graph, node_id))

CallGetDependency ==
    \E src_id \in AskedIDs, dst_id \in AskedIDs :
        Answer("get_dependency", <<src_id, dst_id>>,
               get_dependency(depend_map, src_id, dst_id))

CallGetCallerDependencies ==
    \E src_id \in AskedIDs :
        Answer("get_caller_dependencies", <<src_id>>,
               get_caller_dependencies(depend_map, src_id))

CallGetCalleeDependencies ==
    \E dst_id \in AskedIDs :
        Answer("get_callee_dependencies", <<dst_id>>,
               get_callee_dependencies(depend_map, dst_id))

CallGetTopDependencies ==
    \E top_n \in (-1)..MaxTop :
        Answer("get_top_dependencies", <<top_n>>,
               get_top_dependencies(depend_map, top_n))

NextQuery ==
    \/ CallGetNodeStatistics
    \/ CallGetDependency
    \/ CallGetCallerDependencies
    \/ CallGetCalleeDependencies
    \/ CallGetTopDependencies

SpecQuery == InitQuery /\ [][NextQuery]_vars

----------------------------------------------------------------------------
\* find/match.py match_function, find/match_codeql.py match_codeql_to_jelly

MaxFiles == 2

MaxRecords == 2

LeadingSlashes == 0..2

\* the names between the separators of a path
PathBodies == {<<>>, <<"a">>, <<"b">>, <<"r", "a">>}

\* a str holding a path: `lead` separators, then the parts joined by one
\* separator each
PathText(lead, parts) == [lead |-> lead, parts |-> parts]

PathTexts == {PathText(n, b) : n \in LeadingSlashes, b \in PathBodies}

\* a variant that strips one leading separator only
lstrip_one(text) == [text EXCEPT !.lead = IF @ > 0 THEN @ - 1 ELSE 0]

\* text.lstrip("/")
lstrip(text) == [text EXCEPT !.lead = 0]

\* pathlib.Path(text): the root is "//" for exactly two leading separators,
\* "/" for any other number of them, and the parts follow
Path(text) ==
    [root  |-> IF text.lead = 0 THEN 0 ELSE IF text.lead = 2 THEN 2 ELSE 1,
     parts |-> text.parts]

\* base / text: an absolute text replaces the base, a relative one is appended
path_join(base, text) ==
    IF text.lead > 0
    THEN Path(text)
    ELSE [root |-> base.root, parts |-> base.parts \o text.parts]

\* str(filepath) of a str or of a Path; the empty Path is "."
str(filepath) ==
    IF "root" \in DOMAIN filepath
    THEN IF filepath.root = 0 /\ filepath.parts = <<>>
         THEN PathText(0, <<".">>)
         ELSE PathText(filepath.root, filepath.parts)
    ELSE filepath

RECURSIVE find_file_id(_, _, _)
\* the loop over jelly_obj.files.items() from file id i on, with its break
find_file_id(table, target_path_str, i) ==
    IF i \notin DOMAIN table
    THEN None
    ELSE IF lstrip(str(table[i])) = target_path_str
         THEN i
         ELSE find_file_id(table, target_path_str, i + 1)

\* a variant that takes a function whose range contains the rows
rows_match_containing(loc, start_row, end_row) ==
    loc.startrow <= start_row /\ end_row <= loc.endrow

\* loc.startrow == start_row and loc.endrow == end_row
rows_match(loc, start_row, end_row) ==
    loc.startrow = start_row /\ loc.endrow = end_row

RECURSIVE find_function(_, _, _, _, _, _)
\* the loop over jelly_obj.functions.items() from position i on
find_function(table, order, target_file_id, start_row, end_row, i) ==
    IF i > Len(order)
    THEN None
    ELSE IF /\ table[order[i]].fileid = target_file_id
            /\ rows_match(table[order[i]], start_row, end_row)
         THEN order[i]
         ELSE find_function(table, order, target_file_id, start_row, end_row, i + 1)

match_function(file_table, function_table, filepath, start_row, end_row) ==
    LET target_path_str == lstrip(str(filepath))
        target_file_id == find_file_id(file_table, target_path_str, 0)
    IN  IF target_file_id = None
        THEN None
        ELSE find_function(function_table, dict_order(DOMAIN function_table),
                           target_file_id, start_row, end_row, 1)

\* a variant that reports the matched records only
append_result_if_matched(results, record, func_id) ==
    IF func_id = None
    THEN results
    ELSE Append(results, <<record.filepath, <<record.start_row, record.end_row>>, func_id>>)

\* results.append((filepath, (start_row, end_row), func_id))
append_result(results, record, func_id) ==
    Append(results, <<record.filepath, <<record.start_row, record.end_row>>, func_id>>)

RECURSIVE match_records(_, _, _, _, _, _)
\* the loop of match_codeql_to_jelly from record i on
match_records(records, file_table, function_table, base, i, results) ==
    IF i > Len(records)
    THEN results
    ELSE LET filepath == records[i].filepath
             full_path == IF base # NoBasePath
                          THEN path_join(Path(base[1]), lstrip(filepath))
                          ELSE Path(filepath)
             func_id == match_function(file_table, function_table, full_path,
                                       records[i].start_row, records[i].end_row)
         IN  match_records(records, file_table, function_table, base, i + 1,
                           append_result(results, records[i], func_id))

match_codeql_to_jelly(records, file_table, function_table, base) ==
    match_records(records, file_table, function_table, base, 1, <<>>)

\* functions 1 and 3 with the same rows in file 0, function 2 with these rows
\* and function 4 with rows around them in file 1
SampleMatchFunctions ==
    <<[fileid |-> 0, startrow |-> 2, startcolumn |-> 1, endrow |-> 3, endcolumn |-> 2],
      [fileid |-> 1, startrow |-> 2, startcolumn |-> 1, endrow |-> 3, endcolumn |-> 2],
      [fileid |-> 0, startrow |-> 2, startcolumn |-> 1, endrow |-> 3, endcolumn |-> 2],
      [fileid |-> 1, startrow |-> 1, startcolumn |-> 1, endrow |-> 4, endcolumn |-> 2]>>

\* the functions of the sample whose file is in the file table
FunctionsOfFiles(file_table) ==
    [f \in {g \in DOMAIN SampleMatchFunctions :
               SampleMatchFunctions[g].fileid \in DOMAIN file_table}
        |-> SampleMatchFunctions[f]]

\* the (start_row, end_row) of a record: the rows of a function, the rows of
\* another one, and rows one off from the first and inside the second
RecordRows == {<<2, 3>>, <<1, 4>>, <<2, 4>>}

Record(filepath, rows) ==
    [filepath |-> filepath, start_row |-> rows[1], end_row |-> rows[2]]

\* jelly_obj.files as the loader builds it: ids 0, 1, ... in the order of the dump
FileTables == UNION {[0..(n - 1) -> PathTexts] : n \in 0..MaxFiles}

SampleFileTables ==
    {[i \in 0..1 |-> IF i = 0 THEN PathText(1, <<"r", "a">>) ELSE PathText(0, <<"b">>)],
     [i \in 0..1 |-> IF i = 0 THEN PathText(0, <<"a">>) ELSE PathText(1, <<"b">>)],
     [i \in 0..0 |-> PathText(0, <<"r", "a">>)]}

SampleRecords ==
    {Record(PathText(n, b), rows) :
        n \in 0..1, b \in {<<"a">>, <<"b">>}, rows \in {<<2, 3>>, <<2, 4>>}}

RecordLists == UNION {[1..n -> SampleRecords] : n \in 0..MaxRecords}

BasePaths ==
    {NoBasePath, <<PathText(1, <<"r">>)>>, <<PathText(0, <<"r">>)>>,
     <<PathText(1, <<>>)>>, <<PathText(0, <<>>)>>}

InitMatch ==
    /\ \/ /\ files \in FileTables
          /\ \E filepath \in PathTexts, rows \in RecordRows :
                codeql_result = <<Record(filepath, rows)>>
          /\ base_path = NoBasePath
       \/ /\ files \in SampleFileTables
          /\ codeql_result \in RecordLists
          /\ base_path \in BasePaths
    /\ functions = FunctionsOfFiles(files)
    /\ graph = EmptyGraph
    /\ TraceIdle
    /\ calls = <<>>
    /\ call2fun = <<>>
    /\ edge_index = 0
    /\ dep_counts = NoCounts
    /\ depend_map = NoCounts
    /\ answer = NoAnswer

CallMatchFunction ==
    \E i \in DOMAIN codeql_result :
        Answer("match_function", <<i>>,
               match_function(files, functions, codeql_result[i].filepath,
                              codeql_result[i].start_row, codeql_result[i].end_row))

CallMatchCodeqlToJelly ==
    Answer("match_codeql_to_jelly", <<>>,
           match_codeql_to_jelly(codeql_result, files, functions, base_path))

NextMatch ==
    \/ CallMatchFunction
    \/ CallMatchCodeqlToJelly

SpecMatch == InitMatch /\ [][NextMatch]_vars

----------------------------------------------------------------------------
\* The two directions of graph/trace.py on a graph and on its reverse

\* the graph with every edge turned around, the weights kept
reverse(g) ==
    [nodes  |-> g.nodes,
     edges  |-> {<<e[2], e[1]>> : e \in g.edges},
     weight |-> [e \in {<<x[2], x[1]>> : x \in DOMAIN g.weight} |->
                   g.weight[<<e[2], e[1]>>]]]

\* what a query gave: the error and the set of (path, total_weight, metadata)
Outcome(metadata) ==
    [error   |-> error,
     records |-> {<<result[i].path, result[i].total_weight, result[i][metadata]>> :
                     i \in DOMAIN result}]

CallSearchDstFirst ==
    /\ answer = NoAnswer
    /\ CallSearchDst

\* the caller keeps what search_dst gave and turns the graph around
TurnGraphAround ==
    /\ pc = "dst_done"
    /\ answer = NoAnswer
    /\ answer' = [op |-> "search_dst", args |-> <<target_func_id, max_depth>>,
                  value |-> Outcome("children")]
    /\ graph' = reverse(graph)
    /\ pc' = "idle"
    /\ target_func_id' = None
    /\ max_depth' = 0
    /\ root_nodes' = {}
    /\ leaf_nodes' = {}
    /\ all_paths' = <<>>
    /\ visited_paths' = {}
    /\ stack' = <<>>
    /\ result' = <<>>
    /\ error' = "none"
    /\ UNCHANGED mvars
    /\ UNCHANGED <<functions, calls, call2fun, edge_index, dep_counts, depend_map>>

\* the caller asks search_src for the same start and max_depth
CallSearchSrcAgain ==
    /\ answer.op = "search_dst"
    /\ search_src(answer.args[1], answer.args[2])

NextMirror ==
    \/ CallSearchDstFirst
    \/ dst_dfs_enter
    \/ dst_dfs_loop
    \/ dst_return
    \/ TurnGraphAround
    \/ CallSearchSrcAgain
    \/ src_dfs_enter
    \/ src_dfs_loop
    \/ src_return

SpecMirror == Init /\ [][NextMirror]_vars

----------------------------------------------------------------------------
\* Vocabulary of the properties, stated on the graph alone

Returned == pc \in {"src_done", "dst_done"} /\ error = "none"

SrcReturned == pc = "src_done" /\ error = "none"

DstReturned == pc = "dst_done" /\ error = "none"

Last(p) == p[Len(p)]

NoRepeat(p) == \A i, j \in DOMAIN p : i # j => p[i] # p[j]

HasIncoming(n) == \E e \in graph.edges : e[2] = n

HasOutgoing(n) == \E e \in graph.edges : e[1] = n

IsRoot(n) == n \in graph.nodes /\ ~HasIncoming(n)

IsLeaf(n) == n \in graph.nodes /\ ~HasOutgoing(n)

ResultPaths == {result[i].path : i \in DOMAIN result}

PathNodes(p) == {p[i] : i \in DOMAIN p}

RECURSIVE SimpleForward(_, _)
\* the sequences of k distinct nodes that begin at s and follow the edges
SimpleForward(s, k) ==
    IF k = 1
    THEN {<<s>>}
    ELSE {Append(x[1], x[2][2]) :
            x \in {y \in SimpleForward(s, k - 1) \X graph.edges :
                     /\ y[2][1] = Last(y[1])
                     /\ y[2][2] \notin PathNodes(y[1])}}

RECURSIVE SimpleBackward(_, _)
\* the sequences of k distinct nodes that begin at s and follow the edges
\* backwards
SimpleBackward(s, k) ==
    IF k = 1
    THEN {<<s>>}
    ELSE {Append(x[1], x[2][1]) :
            x \in {y \in SimpleBackward(s, k - 1) \X graph.edges :
                     /\ y[2][2] = Last(y[1])
                     /\ y[2][1] \notin PathNodes(y[1])}}

AllSimpleForward(s) ==
    UNION {SimpleForward(s, k) : k \in 1..Cardinality(graph.nodes)}

AllSimpleBackward(s) ==
    UNION {SimpleBackward(s, k) : k \in 1..Cardinality(graph.nodes)}

\* the simple paths from s along the edges to a leaf
ForwardPaths(s) == {p \in AllSimpleForward(s) : IsLeaf(Last(p))}

\* the simple paths from s against the edges to a root
BackwardPaths(s) == {p \in AllSimpleBackward(s) : IsRoot(Last(p))}

AtMost(paths, n) == {p \in paths : Len(p) <= n}

----------------------------------------------------------------------------
\* C1: every record search_src returns begins with the start and ends at its
\* root_node, a node of in-degree 0; every record search_dst returns begins
\* with the start and ends at a node of out-degree 0.
C1_PathEndpoints ==
    /\ SrcReturned =>
          \A i \in DOMAIN result :
             /\ result[i].path[1] = target_func_id
             /\ Last(result[i].path) = result[i].root_node
             /\ IsRoot(Last(result[i].path))
    /\ DstReturned =>
          \A i \in DOMAIN result :
             /\ result[i].path[1] = target_func_id
             /\ IsLeaf(Last(result[i].path))

\* search_src has returned two records, one of them three nodes long
C1_Witness ==
    /\ SrcReturned
    /\ Len(result) >= 2
    /\ \E i \in DOMAIN result : Len(result[i].path) = 3

\* C2: the path of every dfs frame, of every record found so far and of every
\* returned record has no repeated node; the same node may be on two paths.
C2_SimplePaths ==
    /\ \A k \in DOMAIN stack : NoRepeat(stack[k].current_path)
    /\ \A k \in DOMAIN stack :
          stack[k].visited_in_path
             = {stack[k].current_path[i] : i \in DOMAIN stack[k].current_path}
    /\ \A i \in DOMAIN all_paths : NoRepeat(all_paths[i].path)
    /\ \A i \in DOMAIN result : NoRepeat(result[i].path)

\* a returned path of three nodes runs through a cycle of the graph: two of
\* its nodes call each other
C2_Witness ==
    /\ Returned
    /\ \E i \in DOMAIN result :
          /\ Len(result[i].path) = 3
          /\ \E a, b \in DOMAIN result[i].path :
                /\ a # b
                /\ <<result[i].path[a], result[i].path[b]>> \in graph.edges
                /\ <<result[i].path[b], result[i].path[a]>> \in graph.edges

\* C3: when the start is no frontier node, search_dst returns exactly the
\* simple paths from the start along the edges to a leaf that have at most
\* max_depth nodes, and search_src those against the edges to a root.
C3_Exhaustive ==
    /\ (DstReturned /\ ~IsLeaf(target_func_id)) =>
          ResultPaths = AtMost(ForwardPaths(target_func_id), max_depth)
    /\ (SrcReturned /\ ~IsRoot(target_func_id)) =>
          ResultPaths = AtMost(BackwardPaths(target_func_id), max_depth)

\* search_dst has returned two paths to the same leaf, of different lengths
C3_Witness ==
    /\ DstReturned
    /\ ~IsLeaf(target_func_id)
    /\ \E i, j \in DOMAIN result :
          /\ Len(result[i].path) = 2
          /\ Len(result[j].path) = 3
          /\ Last(result[i].path) = Last(result[j].path)

\* C4: a start that is no node of the graph (a function with a location but
\* no edge, or None) makes search_src and search_dst raise ValueError; no
\* traversal runs and no list is returned.
C4_NotFound ==
    /\ pc \in {"search_src", "search_dst"} => target_func_id \in graph.nodes
    /\ (pc \in {"src_done", "dst_done"} /\ target_func_id \notin graph.nodes) =>
          /\ error = "ValueError"
          /\ result = <<>>
          /\ all_paths = <<>>
    /\ (pc \in {"src_done", "dst_done"} /\ target_func_id \in graph.nodes) =>
          error = "none"

\* the start has a location, the graph has edges, and the start is on none
C4_Witness ==
    /\ pc = "src_done"
    /\ error = "ValueError"
    /\ target_func_id \in DOMAIN functions
    /\ graph.edges # {}

\* C5: for a start that is a root search_src returns the single record
\* ([start], 0, start), and for a start that is a leaf search_dst returns the
\* single record ([start], 0), whatever max_depth is.
C5_TrivialRecord ==
    /\ (SrcReturned /\ IsRoot(target_func_id)) =>
          /\ Len(result) = 1
          /\ result[1].path = <<target_func_id>>
          /\ result[1].total_weight = 0
          /\ result[1].root_node = target_func_id
    /\ (DstReturned /\ IsLeaf(target_func_id)) =>
          /\ Len(result) = 1
          /\ result[1].path = <<target_func_id>>
          /\ result[1].total_weight = 0

\* search_src was called with max_depth 0 on a root that has callees
C5_Witness ==
    /\ SrcReturned
    /\ IsRoot(target_func_id)
    /\ HasOutgoing(target_func_id)
    /\ max_depth = 0
    /\ Len(result) = 1

\* C6: the trivial record of a start that is already a frontier node carries
\* the start's own location and nothing else: parents = {start: location}
\* from search_src, children = {start: location} from search_dst.
C6_TrivialMetadata ==
    /\ (SrcReturned /\ IsRoot(target_func_id)
          /\ target_func_id \in DOMAIN functions) =>
          \A i \in DOMAIN result :
             /\ DOMAIN result[i].parents = {target_func_id}
             /\ result[i].parents[target_func_id] = functions[target_func_id]
    /\ (DstReturned /\ IsLeaf(target_func_id)
          /\ target_func_id \in DOMAIN functions) =>
          \A i \in DOMAIN result :
             /\ DOMAIN result[i].children = {target_func_id}
             /\ result[i].children[target_func_id] = functions[target_func_id]

\* C7, as stated: no returned record is longer than max_depth, for every
\* start and every max_depth >= 0.
C7_NoRecordLongerThanMaxDepth ==
    Returned => \A i \in DOMAIN result : Len(result[i].path) <= max_depth

\* C7, amended: when the start is no frontier node, no record found or
\* returned is longer than max_depth, a frame past the limit is dropped at
\* once, and the query returns without error the paths within the limit.
C7_DepthLimit ==
    /\ \A i \in DOMAIN all_paths : Len(all_paths[i].path) <= max_depth
    /\ \A k \in DOMAIN stack :
          stack[k].at = "loop" => Len(stack[k].current_path) <= max_depth
    /\ (DstReturned /\ ~IsLeaf(target_func_id)) =>
          /\ \A i \in DOMAIN result : Len(result[i].path) <= max_depth
          /\ AtMost(ForwardPaths(target_func_id), max_depth) \subseteq ResultPaths
    /\ (SrcReturned /\ ~IsRoot(target_func_id)) =>
          /\ \A i \in DOMAIN result : Len(result[i].path) <= max_depth
          /\ AtMost(BackwardPaths(target_func_id), max_depth) \subseteq ResultPaths

\* search_dst has returned a path within the limit while a longer path to a
\* leaf exists and was given up
C7_Witness ==
    /\ DstReturned
    /\ ~IsLeaf(target_func_id)
    /\ result # <<>>
    /\ \E p \in ForwardPaths(target_func_id) : Len(p) > max_depth

\* the nodes s reaches along the edges, and against them, s included
ReachesForward(s) == {Last(p) : p \in AllSimpleForward(s)}

ReachesBackward(s) == {Last(p) : p \in AllSimpleBackward(s)}

\* C8: when the start reaches no leaf, search_dst returns the empty list and
\* raises nothing, and so does search_src when the start reaches no root,
\* whatever max_depth is.
C8_NoFrontierReachable ==
    /\ (pc = "dst_done" /\ target_func_id \in graph.nodes
          /\ \A n \in ReachesForward(target_func_id) : ~IsLeaf(n)) =>
          (error = "none" /\ result = <<>>)
    /\ (pc = "src_done" /\ target_func_id \in graph.nodes
          /\ \A n \in ReachesBackward(target_func_id) : ~IsRoot(n)) =>
          (error = "none" /\ result = <<>>)

\* search_dst with max_depth 2 has returned from a start on a cycle of three
\* functions
C8_Witness ==
    /\ pc = "dst_done"
    /\ max_depth = 2
    /\ result = <<>>
    /\ error = "none"
    /\ \E b, c \in graph.nodes :
          /\ Cardinality({target_func_id, b, c}) = 3
          /\ graph.edges = {<<target_func_id, b>>, <<b, c>>, <<c, target_func_id>>}

\* the weight attribute of an edge, 1 when the edge has none
WeightAttribute(e) == IF e \in DOMAIN graph.weight THEN graph.weight[e] ELSE 1

RECURSIVE SumOfWeights(_, _)
\* the sum of the weights of the first k edges of the list es
SumOfWeights(es, k) ==
    IF k = 0 THEN 0 ELSE WeightAttribute(es[k]) + SumOfWeights(es, k - 1)

\* the edges a path runs along, for search_dst and for search_src
EdgesForward(p) == [i \in 1..(Len(p) - 1) |-> <<p[i], p[i + 1]>>]

EdgesBackward(p) == [i \in 1..(Len(p) - 1) |-> <<p[i + 1], p[i]>>]

\* C9: consecutive nodes of a returned path are joined by an edge in the
\* direction of the traversal, and total_weight is the sum of the weights of
\* exactly these edges, an edge without the attribute counting 1.
C9_WeightSum ==
    /\ DstReturned =>
          \A i \in DOMAIN result :
             LET es == EdgesForward(result[i].path) IN
             /\ \A k \in DOMAIN es : es[k] \in graph.edges
             /\ result[i].total_weight = SumOfWeights(es, Len(es))
    /\ SrcReturned =>
          \A i \in DOMAIN result :
             LET es == EdgesBackward(result[i].path) IN
             /\ \A k \in DOMAIN es : es[k] \in graph.edges
             /\ result[i].total_weight = SumOfWeights(es, Len(es))

\* search_src has returned a path over an edge of weight 2 and one of weight 1
C9_Witness ==
    /\ SrcReturned
    /\ \E i \in DOMAIN result :
          /\ Len(result[i].path) = 3
          /\ result[i].total_weight = 3
          /\ WeightAttribute(<<result[i].path[2], result[i].path[1]>>) = 2

----------------------------------------------------------------------------
\* Vocabulary of the properties of the attribution

\* find_src_function has returned for the recorded call
Attributed == answer.op = "find_src_function"

AttributedCall == calls[answer.args[1]]

\* the line-only containment of a call in function f of the table
ContainsCall(f) ==
    /\ functions[f].fileid = AttributedCall.fileid
    /\ functions[f].startrow <= AttributedCall.startrow
    /\ AttributedCall.endrow <= functions[f].endrow

RowSpan(f) == functions[f].endrow - functions[f].startrow

ColumnSpan(f) == functions[f].endcolumn - functions[f].startcolumn

\* f is lexicographically smaller than g by (row span, column span)
SmallerThan(f, g) ==
    \/ RowSpan(f) < RowSpan(g)
    \/ RowSpan(f) = RowSpan(g) /\ ColumnSpan(f) < ColumnSpan(g)

\* C11: a function returned by find_src_function is in the call's file and
\* contains the call by its lines, and no containing function of the table is
\* lexicographically smaller by (endrow - startrow, endcolumn - startcolumn);
\* with A = lines 1-20, B = lines 5-10 and a call at lines 6-7 it is B.
C11_Innermost ==
    (Attributed /\ answer.value # None) =>
        /\ answer.value \in DOMAIN functions
        /\ ContainsCall(answer.value)
        /\ \A g \in DOMAIN functions :
              ContainsCall(g) => ~SmallerThan(g, answer.value)
        /\ (functions = ScenarioFunctions /\ AttributedCall = ScenarioCall)
              => answer.value = 2

\* a function was returned although an earlier function of the table contains
\* the call too, with the same lines and a larger column span
C11_Witness ==
    /\ Attributed
    /\ answer.value # None
    /\ \E g \in DOMAIN functions :
          /\ g < answer.value
          /\ ContainsCall(g)
          /\ RowSpan(g) = RowSpan(answer.value)
          /\ ColumnSpan(g) > ColumnSpan(answer.value)

\* C12: find_src_function returns None exactly when no function of the call's
\* file contains the call by its lines, and a function id of the table
\* otherwise.
C12_NoneIffUncontained ==
    Attributed =>
        /\ (answer.value = None) <=> ~(\E f \in DOMAIN functions : ContainsCall(f))
        /\ answer.value # None => answer.value \in DOMAIN functions

\* None was returned although a function of another file has lines around
\* those of the call
C12_Witness ==
    /\ Attributed
    /\ answer.value = None
    /\ \E f \in DOMAIN functions :
          /\ functions[f].fileid # AttributedCall.fileid
          /\ functions[f].startrow <= AttributedCall.startrow
          /\ AttributedCall.endrow <= functions[f].endrow

----------------------------------------------------------------------------
\* Vocabulary of the properties of the dependency map

\* dependency_weights has returned and depend_map is its result
WeightsDone == pc = "weights_done"

\* dependency_weights has returned and nothing was asked of its result yet
JustReturned == pc = "weights_done" /\ answer = NoAnswer

\* function f of the table contains this location by its lines
Encloses(f, loc) ==
    /\ functions[f].fileid = loc.fileid
    /\ functions[f].startrow <= loc.startrow
    /\ loc.endrow <= functions[f].endrow

\* the innermost function of the table around a location, None without one
\* (no two functions of the sample table have the same spans)
InnermostOf(loc) ==
    IF \E f \in DOMAIN functions : Encloses(f, loc)
    THEN CHOOSE f \in DOMAIN functions :
            /\ Encloses(f, loc)
            /\ \A g \in DOMAIN functions : Encloses(g, loc) => ~SmallerThan(g, f)
    ELSE None

\* the function edge i of call2fun attributes to, None when its call is not
\* recorded or has no enclosing function
OwnerOfEdge(i) ==
    IF call2fun[i][1] \in DOMAIN calls
    THEN InnermostOf(calls[call2fun[i][1]])
    ELSE None

\* edge i of call2fun names a recorded call that has an enclosing function
Counted(i) == OwnerOfEdge(i) # None

\* the positions of call2fun whose call attributes to s and whose target is d
EdgesOf(s, d) ==
    {i \in 1..Len(call2fun) : OwnerOfEdge(i) = s /\ s # None /\ call2fun[i][2] = d}

\* the pairs (src, dst) some edge of call2fun is counted for
CountedPairs ==
    {<<OwnerOfEdge(i), call2fun[i][2]>> : i \in {j \in 1..Len(call2fun) : Counted(j)}}

\* C13: after dependency_weights the count of every pair (src, dst) is the
\* number of call2fun edges whose call is recorded, attributes to src and
\* targets dst; pairs without such an edge are absent, so every stored value
\* is at least 1; the sum of the counts is the number of edges not skipped.
C13_CountsEdges ==
    WeightsDone =>
        /\ DOMAIN depend_map.count = CountedPairs
        /\ \A p \in CountedPairs :
              depend_map.count[p] = Cardinality(EdgesOf(p[1], p[2]))
        /\ \A p \in DOMAIN depend_map.count : depend_map.count[p] >= 1
        /\ answer.op = "get_total_calls" =>
              answer.value = Cardinality({i \in 1..Len(call2fun) : Counted(i)})

\* the total was taken of a map with an entry, after an edge with a missing
\* call id and an edge with an unattributable call were skipped
C13_Witness ==
    /\ WeightsDone
    /\ answer.op = "get_total_calls"
    /\ answer.value = 1
    /\ DOMAIN depend_map.count # {}
    /\ \E i \in 1..Len(call2fun) : call2fun[i][1] \notin DOMAIN calls
    /\ \E i \in 1..Len(call2fun) :
          call2fun[i][1] \in DOMAIN calls /\ ~Counted(i)

\* the call ids of the edges counted for the pair (s, d)
CallsOf(s, d) == {call2fun[i][1] : i \in EdgesOf(s, d)}

\* some edge counted for the pair (s, d) stands twice in call2fun
RepeatedEdge(s, d) ==
    \E i, j \in EdgesOf(s, d) : i # j /\ call2fun[i] = call2fun[j]

\* C14 as stated: the value of a key is the number of distinct call ids
\* attributed to src that invoke dst, repeated edges or not.
C14_DistinctCallIds ==
    WeightsDone =>
        \A p \in DOMAIN depend_map.count :
            depend_map.count[p] = Cardinality(CallsOf(p[1], p[2]))

\* C14: the value of a key (src, dst) is the number of call2fun edges, each
\* occurrence counted, whose call attributes to src and targets dst; it is the
\* number of distinct call ids when no such edge stands twice in call2fun and
\* larger otherwise.
C14_EdgeOccurrences ==
    JustReturned =>
        \A p \in DOMAIN depend_map.count :
            /\ depend_map.count[p] = Cardinality(EdgesOf(p[1], p[2]))
            /\ IF RepeatedEdge(p[1], p[2])
               THEN depend_map.count[p] > Cardinality(CallsOf(p[1], p[2]))
               ELSE depend_map.count[p] = Cardinality(CallsOf(p[1], p[2]))

\* a key counted an edge that stands twice in call2fun
C14_Witness ==
    /\ JustReturned
    /\ \E p \in DOMAIN depend_map.count :
          /\ RepeatedEdge(p[1], p[2])
          /\ depend_map.count[p] = 2
          /\ Cardinality(CallsOf(p[1], p[2])) = 1

\* C15: dependency_weights does not depend on the order of call2fun: on every
\* permutation of the list it returns a map with the same keys and counts.
C15_OrderIndependent ==
    JustReturned =>
        \A perm \in Permutations(DOMAIN call2fun) :
            LET permuted == [i \in DOMAIN call2fun |-> call2fun[perm[i]]] IN
            dependency_weights_of(permuted).count = depend_map.count

\* the map has two keys, one of them counted twice, from a list where the
\* two edges of that key are not adjacent
C15_Witness ==
    /\ JustReturned
    /\ Len(depend_map.keys) = 2
    /\ Len(call2fun) = 3
    /\ <<call2fun[1][1], call2fun[1][2]>> = <<call2fun[3][1], call2fun[3][2]>>
    /\ call2fun[1] # call2fun[2]
    /\ depend_map.count[depend_map.keys[1]] = 2

\* build_callgraph or build_meta_callgraph has returned the graph of depend_map
GraphBuilt == pc \in {"graph_built", "meta_graph_built"}

\* C16: a call2fun edge whose call attributes to F and whose target is F gives
\* the entry (F, F) with its count in the dependency map, and build_callgraph
\* keeps it as the edge F -> F with that weight.
C16_SelfLoops ==
    \A F \in FunctionIDs :
        (pc = "graph_built" /\ EdgesOf(F, F) # {}) =>
            /\ <<F, F>> \in DOMAIN depend_map.count
            /\ depend_map.count[<<F, F>>] = Cardinality(EdgesOf(F, F))
            /\ F \in graph.nodes
            /\ <<F, F>> \in graph.edges
            /\ <<F, F>> \in DOMAIN graph.weight
            /\ graph.weight[<<F, F>>] = Cardinality(EdgesOf(F, F))

\* the graph was built of a map in which the nested function calls itself
\* twice and is called by the outer one
C16_Witness ==
    /\ pc = "graph_built"
    /\ Cardinality(EdgesOf(2, 2)) = 2
    /\ EdgesOf(1, 2) # {}
    /\ graph.weight[<<2, 2>>] = 2

\* the function ids that are an end of a key of the dependency map
Endpoints == {p[1] : p \in DOMAIN depend_map.count} \cup {p[2] : p \in DOMAIN depend_map.count}

\* C17: the graph of build_callgraph has the ends of the dependency-map keys
\* as its nodes, the keys as its edges and the counts as its weights; the
\* graph of build_meta_callgraph has the same nodes, edges and weights.
C17_GraphOfMap ==
    GraphBuilt =>
        /\ graph.nodes = Endpoints
        /\ graph.edges = DOMAIN depend_map.count
        /\ DOMAIN graph.weight = graph.edges
        /\ \A e \in graph.edges : graph.weight[e] = depend_map.count[e]
        /\ graph.nodes = build_callgraph(depend_map.count).nodes
        /\ graph.edges = build_callgraph(depend_map.count).edges
        /\ graph.weight = build_callgraph(depend_map.count).weight

\* build_meta_callgraph returned a graph of two edges with different weights
\* one of whose nodes has no entry in the function table
C17_Witness ==
    /\ pc = "meta_graph_built"
    /\ Cardinality(graph.edges) = 2
    /\ \E e1, e2 \in graph.edges : graph.weight[e1] = 2 /\ graph.weight[e2] = 1
    /\ \E n \in graph.nodes : n \notin DOMAIN graph.attrs
    /\ \E n \in graph.nodes : n \in DOMAIN graph.attrs

----------------------------------------------------------------------------
\* Vocabulary of the properties of the queries

RECURSIVE Sum(_, _)
\* the sum of f over the set S
Sum(f, S) ==
    IF S = {} THEN 0
    ELSE LET x == CHOOSE y \in S : TRUE IN f[x] + Sum(f, S \ {x})

\* the edges of the graph that carry a weight, into n and out of n
WeightedInto(n) == {e \in DOMAIN graph.weight : e \in graph.edges /\ e[2] = n}

WeightedOutOf(n) == {e \in DOMAIN graph.weight : e \in graph.edges /\ e[1] = n}

\* the graph carries the counts of depend_map as its weights
GraphOfCounts == DOMAIN graph.weight = DOMAIN depend_map.count

\* C18: for a node n of the graph get_node_statistics reports as in_degree
\* the number of distinct functions with an edge into n, as out_degree the
\* number of distinct functions n has an edge to, and as weighted degrees the
\* sums of the weights of the edges into n and out of n, which are the sums
\* of the dependency-map counts with n as target and as source.
C18_NodeStatistics ==
    (answer.op = "get_node_statistics" /\ answer.args[1] \in graph.nodes) =>
        LET n == answer.args[1] IN
        /\ DOMAIN answer.value =
              {"in_degree", "out_degree", "weighted_in_degree", "weighted_out_degree"}
        /\ answer.value.in_degree = Cardinality({s \in graph.nodes : <<s, n>> \in graph.edges})
        /\ answer.value.out_degree = Cardinality({d \in graph.nodes : <<n, d>> \in graph.edges})
        /\ answer.value.weighted_in_degree = Sum(graph.weight, WeightedInto(n))
        /\ answer.value.weighted_out_degree = Sum(graph.weight, WeightedOutOf(n))
        /\ GraphOfCounts =>
              /\ answer.value.weighted_in_degree =
                    Sum(depend_map.count, {p \in DOMAIN depend_map.count : p[2] = n})
              /\ answer.value.weighted_out_degree =
                    Sum(depend_map.count, {p \in DOMAIN depend_map.count : p[1] = n})

\* the statistics of a node that calls itself and another node, with a
\* weighted out-degree above its out-degree
C18_Witness ==
    /\ answer.op = "get_node_statistics"
    /\ answer.args[1] \in graph.nodes
    /\ <<answer.args[1], answer.args[1]>> \in graph.edges
    /\ GraphOfCounts
    /\ answer.value.out_degree = 2
    /\ answer.value.weighted_out_degree = 3
    /\ answer.value.in_degree = 1

\* the function ids that occur in a key of the dependency map
KnownFunctions == {p[1] : p \in DOMAIN depend_map.count} \cup {p[2] : p \in DOMAIN depend_map.count}

\* what the queries answer about nodes, pairs and functions that are unknown
UnknownAnswers ==
    /\ error = "none"
    /\ (answer.op = "get_node_statistics" /\ answer.args[1] \notin graph.nodes)
          => DOMAIN answer.value = {}
    /\ (answer.op = "get_dependency"
          /\ <<answer.args[1], answer.args[2]>> \notin DOMAIN depend_map.count)
          => answer.value = 0
    /\ (answer.op = "get_caller_dependencies" /\ answer.args[1] \notin KnownFunctions)
          => DOMAIN answer.value = {}
    /\ (answer.op = "get_callee_dependencies" /\ answer.args[1] \notin KnownFunctions)
          => DOMAIN answer.value = {}

\* C19: the queries do not raise on what they do not know: get_node_statistics
\* answers the empty result for a node that is not in the graph,
\* get_dependency 0 for a pair that is not a key, get_caller_dependencies and
\* get_callee_dependencies an empty mapping for an unknown function; and no
\* query changes the graph or the map.
C19_UnknownQueries ==
    /\ []UnknownAnswers
    /\ [][graph' = graph /\ depend_map' = depend_map]_vars

\* the statistics of a node that is not in a graph with edges were asked for
C19_Witness ==
    /\ answer.op = "get_node_statistics"
    /\ answer.args[1] \notin graph.nodes
    /\ graph.edges # {}
    /\ DOMAIN answer.value = {}

\* the place of a key in the iteration order of the dependency map
Position(s, d) == CHOOSE i \in 1..Len(depend_map.keys) : depend_map.keys[i] = <<s, d>>

\* triple a stands before triple b in the order of get_top_dependencies
Before(a, b) ==
    \/ a[3] > b[3]
    \/ a[3] = b[3] /\ Position(a[1], a[2]) < Position(b[1], b[2])

\* C20: get_top_dependencies returns triples (src, dst, count) of the map in
\* descending order of count, equal counts in the iteration order of the map,
\* and for top_n >= 0 the first min(top_n, number of entries) of them; for
\* {(1,2): 3, (1,3): 5, (4,1): 1} it lists (1,3,5) before (1,2,3).
C20_TopDependencies ==
    (answer.op = "get_top_dependencies" /\ answer.args[1] >= 0) =>
        LET top == answer.value
            n == Cardinality(DOMAIN depend_map.count)
            returned == {<<top[i][1], top[i][2]>> : i \in 1..Len(top)}
        IN  /\ Len(top) = IF answer.args[1] < n THEN answer.args[1] ELSE n
            /\ \A i \in 1..Len(top) :
                  /\ <<top[i][1], top[i][2]>> \in DOMAIN depend_map.count
                  /\ top[i][3] = depend_map.count[<<top[i][1], top[i][2]>>]
            /\ \A i, j \in 1..Len(top) : i < j => Before(top[i], top[j])
            /\ \A i \in 1..Len(top) :
                  \A p \in DOMAIN depend_map.count \ returned :
                      Before(top[i], <<p[1], p[2], depend_map.count[p]>>)
            /\ (depend_map = ScenarioMap /\ answer.args[1] >= 2) =>
                  top[1] = <<1, 3, 5>> /\ top[2] = <<1, 2, 3>>

\* the first two of three entries of the same count were returned
C20_Witness ==
    /\ answer.op = "get_top_dependencies"
    /\ answer.args[1] = 2
    /\ Len(depend_map.keys) = 3
    /\ \A p \in DOMAIN depend_map.count : depend_map.count[p] = 1
    /\ Len(answer.value) = 2

----------------------------------------------------------------------------
\* Vocabulary of the properties of the matching

\* match_function has returned for a record of the list
Matched == answer.op = "match_function"

MatchedRecord == codeql_result[answer.args[1]]

\* two path strings are the same up to leading separators
SamePath(t1, t2) == t1.parts = t2.parts

\* function f is in a file of the table whose path is that of the record
InFileOf(f, record) ==
    /\ functions[f].fileid \in DOMAIN files
    /\ SamePath(files[functions[f].fileid], record.filepath)

\* the rows of function f are those of the record
SameRows(f, record) ==
    /\ functions[f].startrow = record.start_row
    /\ functions[f].endrow = record.end_row

\* the functions that have the path and the rows of the record
Candidates(record) ==
    {f \in DOMAIN functions : InFileOf(f, record) /\ SameRows(f, record)}

\* C21: a function id returned by match_function names a function whose file
\* path is that of the record after normalization and whose startrow and
\* endrow are the record's; a record without a function of these rows in its
\* file, or whose file is not in the file table, gets None.
C21_ExactMatch ==
    Matched =>
        /\ answer.value # None =>
              /\ answer.value \in DOMAIN functions
              /\ InFileOf(answer.value, MatchedRecord)
              /\ SameRows(answer.value, MatchedRecord)
        /\ (\A f \in DOMAIN functions :
               InFileOf(f, MatchedRecord) => ~SameRows(f, MatchedRecord))
              => answer.value = None
        /\ (\A i \in DOMAIN files : ~SamePath(files[i], MatchedRecord.filepath))
              => answer.value = None

\* None was returned for a record one row off from a function of its file and
\* inside another function of that file
C21_Witness ==
    /\ Matched
    /\ answer.value = None
    /\ \E f \in DOMAIN functions :
          /\ InFileOf(f, MatchedRecord)
          /\ functions[f].startrow = MatchedRecord.start_row
          /\ functions[f].endrow = MatchedRecord.end_row - 1
    /\ \E f \in DOMAIN functions :
          /\ InFileOf(f, MatchedRecord)
          /\ functions[f].startrow < MatchedRecord.start_row
          /\ MatchedRecord.end_row <= functions[f].endrow

\* C22 as stated: match_function returns the first function, in the order of
\* the function table, whose file has the normalized path of the record and
\* whose rows are the record's, whenever there is one, also when several file
\* ids carry that path; it returns None only when there is none.
C22_MatchWheneverExists ==
    Matched =>
        IF Candidates(MatchedRecord) = {}
        THEN answer.value = None
        ELSE /\ answer.value \in Candidates(MatchedRecord)
             /\ \A f \in Candidates(MatchedRecord) : answer.value <= f

\* match_codeql_to_jelly has returned its list
MatchedAll == answer.op = "match_codeql_to_jelly"

\* C23: match_codeql_to_jelly returns one result per record, in the order of
\* the records, each with the record's own file path and rows and with a
\* function id or None; a record that matches no function is in the list with
\* None, and nothing is raised.
C23_OneResultPerRecord ==
    MatchedAll =>
        /\ error = "none"
        /\ Len(answer.value) = Len(codeql_result)
        /\ \A i \in DOMAIN codeql_result :
              /\ answer.value[i][1] = codeql_result[i].filepath
              /\ answer.value[i][2] = <<codeql_result[i].start_row, codeql_result[i].end_row>>
              /\ answer.value[i][3] \in DOMAIN functions \cup {None}
              /\ (\A f \in DOMAIN functions : ~SameRows(f, codeql_result[i]))
                    => answer.value[i][3] = None

\* the list pairs the first record with None and the second with a function
C23_Witness ==
    /\ MatchedAll
    /\ Len(codeql_result) = 2
    /\ Len(answer.value) = 2
    /\ answer.value[1][3] = None
    /\ answer.value[2][3] # None
    /\ codeql_result[1] # codeql_result[2]

\* "/" + p
WithSeparator(text) == [text EXCEPT !.lead = @ + 1]

\* the file table with a separator put before the path of file i
WithSeparatorAt(i) == [files EXCEPT ![i] = WithSeparator(@)]

\* the text of base_path joined with the path p of a record
Joined(p) ==
    [lead |-> base_path[1].lead, parts |-> base_path[1].parts \o p.parts]

\* C24: match_function gives the same result for a path p and for "/" + p,
\* and the same result when a separator is put before a path of the file
\* table; with a base_path, match_codeql_to_jelly pairs a record p with what
\* match_function gives for base_path joined with p, a function of a file
\* whose path is that joined path.
C24_LeadingSeparator ==
    /\ Matched =>
          /\ answer.value =
                match_function(files, functions, WithSeparator(MatchedRecord.filepath),
                               MatchedRecord.start_row, MatchedRecord.end_row)
          /\ \A i \in DOMAIN files :
                answer.value =
                   match_function(WithSeparatorAt(i), functions, MatchedRecord.filepath,
                                  MatchedRecord.start_row, MatchedRecord.end_row)
    /\ (MatchedAll /\ base_path # NoBasePath) =>
          \A i \in DOMAIN codeql_result :
              /\ answer.value[i][3] =
                    match_function(files, functions, Joined(codeql_result[i].filepath),
                                   codeql_result[i].start_row, codeql_result[i].end_row)
              /\ answer.value[i][3] # None =>
                    SamePath(files[functions[answer.value[i][3]].fileid],
                             Joined(codeql_result[i].filepath))

\* with a base path of one name, a record was paired with a function of the
\* file whose path is the base path joined with the path of the record
C24_Witness ==
    /\ MatchedAll
    /\ base_path # NoBasePath
    /\ \E i \in DOMAIN codeql_result :
          /\ answer.value[i][3] # None
          /\ base_path[1].parts # <<>>
          /\ codeql_result[i].filepath.lead = 1
          /\ files[functions[answer.value[i][3]].fileid].parts
                = base_path[1].parts \o codeql_result[i].filepath.parts

----------------------------------------------------------------------------
\* Properties of the traversal as a whole

\* the records of the returned list
ResultRecords == {result[i] : i \in DOMAIN result}

\* the locations of the functions of a path that have one
MetadataOf(p) == [f \in PathNodes(p) \cap DOMAIN functions |-> functions[f]]

\* the records search_src owes for the snapshot and the parameters alone
SrcRecordsOf(t, d) ==
    IF IsRoot(t)
    THEN {[path |-> <<t>>, total_weight |-> 0, root_node |-> t, parents |-> <<>>]}
    ELSE {[path |-> p,
           total_weight |-> SumOfWeights(EdgesBackward(p), Len(p) - 1),
           root_node |-> Last(p),
           parents |-> MetadataOf(p)] : p \in AtMost(BackwardPaths(t), d)}

\* the records search_dst owes for the snapshot and the parameters alone
DstRecordsOf(t, d) ==
    IF IsLeaf(t)
    THEN {[path |-> <<t>>, total_weight |-> 0, children |-> MetadataOf(<<t>>)]}
    ELSE {[path |-> p,
           total_weight |-> SumOfWeights(EdgesForward(p), Len(p) - 1),
           children |-> MetadataOf(p)] : p \in AtMost(ForwardPaths(t), d)}

\* the set of returned records is a function of the snapshot and the parameters
SameRecordsEveryTime ==
    /\ SrcReturned => ResultRecords = SrcRecordsOf(target_func_id, max_depth)
    /\ DstReturned => ResultRecords = DstRecordsOf(target_func_id, max_depth)

\* C25: no step of search_src or search_dst, whether the query returns
\* records, returns the empty list or raises, changes the nodes, edges or
\* weights of the graph or the function table; the set of records returned is
\* determined by the snapshot and the parameters, so the same query on the
\* same snapshot returns the same set.
C25_ReadOnly ==
    /\ [][graph' = graph /\ functions' = functions]_vars
    /\ []SameRecordsEveryTime

\* search_dst has returned two records from a graph of three weighted edges
C25_Witness ==
    /\ DstReturned
    /\ Len(result) = 2
    /\ Cardinality(graph.edges) = 3
    /\ DOMAIN graph.weight = graph.edges

\* search_src has ended on the reverse of the graph search_dst ended on
Mirrored == pc = "src_done" /\ answer.op = "search_dst"

\* C26: for a start that is no frontier node, search_dst on a graph and
\* search_src on the graph with every edge reversed, with the same start and
\* max_depth, both raise or return the same set of (path, total_weight), and
\* the children maps are the parents maps of the same paths.
C26_Mirror ==
    (Mirrored /\ ~IsRoot(target_func_id)) =>
        /\ error = answer.value.error
        /\ Outcome("parents").records = answer.value.records

\* both directions have returned a path of two and a path of three nodes of
\* different total weights
C26_Witness ==
    /\ Mirrored
    /\ ~IsRoot(target_func_id)
    /\ error = "none"
    /\ \E i, j \in DOMAIN result :
          /\ Len(result[i].path) = 2
          /\ Len(result[j].path) = 3
          /\ result[i].total_weight # result[j].total_weight
          /\ DOMAIN result[j].parents # {}

\* no two records of a list have the same path
DistinctPaths(records) ==
    \A i, j \in DOMAIN records : i # j => records[i].path # records[j].path

\* C27: in every exploration order, no two records found so far and no two
\* records of the returned list of one query have the same ordered path, and
\* the recorded path tuples are those of the records.
C27_Deduplication ==
    /\ DistinctPaths(all_paths)
    /\ DistinctPaths(result)
    /\ pc \in {"search_src", "search_dst"} =>
          visited_paths = {all_paths[i].path : i \in DOMAIN all_paths}

\* search_src has returned two paths that leave the start by different
\* callers and end at the same root
C27_Witness ==
    /\ SrcReturned
    /\ \E i, j \in DOMAIN result :
          /\ i # j
          /\ Last(result[i].path) = Last(result[j].path)
          /\ Len(result[i].path) = 3
          /\ Len(result[j].path) = 2

\* the keys of a metadata map are nodes of the path and carry their locations
OwnMetadata(metadata, path) ==
    /\ DOMAIN metadata \subseteq PathNodes(path)
    /\ \A f \in DOMAIN metadata :
          f \in DOMAIN functions /\ metadata[f] = functions[f]

\* C28: the parents (children) map of every dfs frame, of every record found
\* and of every returned record has only nodes of that frame's or record's
\* own path as keys, never a node visited on another branch only, and maps
\* each key to its location in the function table.
C28_IsolatedBranches ==
    /\ pc = "search_src" =>
          \A k \in DOMAIN stack :
             OwnMetadata(stack[k].parents_info, stack[k].current_path)
    /\ pc = "search_dst" =>
          \A k \in DOMAIN stack :
             OwnMetadata(stack[k].children_info, stack[k].current_path)
    /\ SrcReturned =>
          \A i \in DOMAIN result : OwnMetadata(result[i].parents, result[i].path)
    /\ DstReturned =>
          \A i \in DOMAIN result : OwnMetadata(result[i].children, result[i].path)

\* search_src has returned two records each of which has a located function
\* that is not on the path of the other
C28_Witness ==
    /\ SrcReturned
    /\ \E i, j \in DOMAIN result :
          /\ \E f \in DOMAIN result[i].parents : f \notin PathNodes(result[j].path)
          /\ \E f \in DOMAIN result[j].parents : f \notin PathNodes(result[i].path)

Searching == pc \in {"search_src", "search_dst"}

Finished == pc \in {"src_done", "dst_done"}

\* every branch under exploration has at most as many nodes as the graph, none
\* of them twice
BranchesBounded ==
    Searching =>
       /\ Len(stack) <= Cardinality(graph.nodes)
       /\ \A k \in DOMAIN stack :
             /\ Len(stack[k].current_path) <= Cardinality(graph.nodes)
             /\ Cardinality(PathNodes(stack[k].current_path))
                   = Len(stack[k].current_path)

\* C29: on every graph, with cycles and self-loops and with max_depth above
\* the number of nodes included, no branch of a traversal grows beyond the
\* number of nodes of the graph, and every call of search_src or search_dst
\* eventually returns.
C29_Terminates == []BranchesBounded /\ (Searching ~> Finished)

\* a traversal whose start lies on a cycle (a self-loop or a cycle of two
\* functions) has returned paths, asked for a depth above the number of nodes
C29_Witness ==
    /\ Finished
    /\ error = "none"
    /\ result # <<>>
    /\ max_depth > Cardinality(graph.nodes)
    /\ \E v \in graph.nodes :
          /\ <<target_func_id, v>> \in graph.edges
          /\ <<v, target_func_id>> \in graph.edges

\* f is the source or the destination of some edge
OnSomeEdge(f) == HasIncoming(f) \/ HasOutgoing(f)

\* C30: every node of a graph as build_callgraph returns it is an end of at
\* least one edge, so none is a root and a leaf at once; a function of the function
\* table that is on no edge is not a node, and a traversal started from it
\* ends with the error and no record, not with the one-node path.
C30_NoIsolatedNode ==
    /\ pc = "idle" =>
          /\ \A n \in graph.nodes :
                /\ in_degree(graph, n) + out_degree(graph, n) >= 1
                /\ ~(IsRoot(n) /\ IsLeaf(n))
          /\ \A f \in DOMAIN functions : ~OnSomeEdge(f) => f \notin graph.nodes
    /\ (Finished /\ target_func_id \in DOMAIN functions
                 /\ ~OnSomeEdge(target_func_id)) =>
          /\ error = "ValueError"
          /\ result = <<>>

\* search_dst was started from a function that has a location and is on no
\* edge of a graph that has other nodes, and has ended with the error
C30_Witness ==
    /\ pc = "dst_done"
    /\ target_func_id \in DOMAIN functions
    /\ ~OnSomeEdge(target_func_id)
    /\ graph.nodes # {}
    /\ error = "ValueError"
    /\ result = <<>>

====
